---- MODULE Spec2Model ----
(***************************************************************************)
(* A model of the HTTP/2 framing core of solicit (src/http/frame/mod.rs):  *)
(* the 9-byte frame header codec (unpack_header, pack_header), the padding *)
(* extractor (parse_padded_payload), the raw frame container (RawFrame)    *)
(* and its FrameIR serialisation into a FrameBuilder sink.                 *)
(*                                                                         *)
(* Octets (u8) are the integers 0..255.  A u32 is held as its four         *)
(* base-256 digits, most significant first (<<d3, d2, d1, d0>>), because   *)
(* TLC's integers are 32-bit signed and cannot hold 2^31..2^32-1; shifts   *)
(* by multiples of 8, `|`, `&`, `!` and the `as` casts of the source act   *)
(* on that representation exactly as they act on the machine word.         *)
(***************************************************************************)
EXTENDS Integers, Sequences, FiniteSets, TLC

VARIABLES
    hdr,      \* codec: the FrameHeader handed to pack_header
    hbuf,     \* codec: the FrameHeaderBuffer handed to unpack_header
    padded,   \* padding extractor: the payload handed to parse_padded_payload
    buf,      \* container: the caller's byte buffer
    frame,    \* container: the RawFrame the caller holds, Some(f), or None
    origin,   \* container: the construction path of the frame held (ghost)
    sink,     \* container: the FrameBuilder the frame is serialised into
    stream,   \* streamed input: the frames sent, the bytes on their way,
              \* the reader's position in buf and the frames it has emitted
    ret       \* the last operation and what it returned

vars == <<hdr, hbuf, padded, buf, frame, origin, sink, stream, ret>>

----------------------------------------------------------------------------
(* Bounds of the model. *)

\* Longest payload handed to parse_padded_payload.
MaxPadded == 4

\* Most bytes a caller's buffer holds beyond the 9 header bytes.
MaxExtra == 3

\* Most frames sent down one stream.
MaxFrames == 2

----------------------------------------------------------------------------
(* Machine arithmetic. *)

RECURSIVE BitAnd8(_, _)
\* `a & b` on octets.
BitAnd8(a, b) ==
    IF a = 0 \/ b = 0 THEN 0
    ELSE (IF a % 2 = 1 /\ b % 2 = 1 THEN 1 ELSE 0) + 2 * BitAnd8(a \div 2, b \div 2)

RECURSIVE BitOr8(_, _)
\* `a | b` on octets.
BitOr8(a, b) ==
    IF a = 0 THEN b
    ELSE IF b = 0 THEN a
    ELSE (IF a % 2 = 1 \/ b % 2 = 1 THEN 1 ELSE 0) + 2 * BitOr8(a \div 2, b \div 2)

\* `b as u32` for an octet b.
AsU32(b) == <<0, 0, 0, b>>

\* `w as u8` for a u32 w: the low octet.
AsU8(w) == w[4]

\* `w << k` on a u32, k a multiple of 8 below 32: digits move up, zeros enter.
Shl32(w, k) ==
    [i \in 1..4 |-> IF i + (k \div 8) <= 4 THEN w[i + (k \div 8)] ELSE 0]

\* `w >> k` on a u32, k a multiple of 8 below 32 (logical shift).
Shr32(w, k) ==
    [i \in 1..4 |-> IF i - (k \div 8) >= 1 THEN w[i - (k \div 8)] ELSE 0]

\* `a | b` on u32.
BitOr32(a, b) == [i \in 1..4 |-> BitOr8(a[i], b[i])]

\* `a & b` on u32.
BitAnd32(a, b) == [i \in 1..4 |-> BitAnd8(a[i], b[i])]

\* `!a` on u32.
Not32(a) == [i \in 1..4 |-> 255 - a[i]]

\* The u32 literals of the source.
X80000000 == <<128, 0, 0, 0>>
X000000FF == <<0, 0, 0, 255>>

\* `w as usize`, the number a u32 stands for; used where it is below 2^31.
AsUsize(w) == ((w[1] * 256 + w[2]) * 256 + w[3]) * 256 + w[4]

\* s[from..to) of a slice, 0-based as in the source.
Slice(s, from, to) == SubSeq(s, from + 1, to)

----------------------------------------------------------------------------
(* The header codec. *)

FRAME_HEADER_LEN == 9

\* unpack_octets_4!(buf, offset, u32); buf is indexed from 0 in the source.
unpack_octets_4(b, offset) ==
    BitOr32(BitOr32(BitOr32(Shl32(AsU32(b[offset + 1]), 24),
                            Shl32(AsU32(b[offset + 2]), 16)),
                    Shl32(AsU32(b[offset + 3]), 8)),
            Shl32(AsU32(b[offset + 4]), 0))

\* parse_stream_id without the reserved-bit mask.
parse_stream_id_unmasked(b) == unpack_octets_4(b, 0)

parse_stream_id(b) ==
    LET unpacked == unpack_octets_4(b, 0)
    IN  BitAnd32(unpacked, Not32(X80000000))

unpack_header(header) ==
    LET length == BitOr32(BitOr32(Shl32(AsU32(header[1]), 16),
                                  Shl32(AsU32(header[2]), 8)),
                          AsU32(header[3]))
        frame_type == header[4]
        flags == header[5]
        stream_id == parse_stream_id(Slice(header, 5, 9))
    IN  <<length, frame_type, flags, stream_id>>

\* pack_header writing the stream id least significant byte first.
pack_header_le(header) ==
    LET length == header[1]
        stream_id == header[4]
    IN  << AsU8(BitAnd32(Shr32(length, 16), X000000FF)),
           AsU8(BitAnd32(Shr32(length, 8), X000000FF)),
           AsU8(BitAnd32(length, X000000FF)),
           header[2],
           header[3],
           AsU8(BitAnd32(stream_id, X000000FF)),
           AsU8(BitAnd32(Shr32(stream_id, 8), X000000FF)),
           AsU8(BitAnd32(Shr32(stream_id, 16), X000000FF)),
           AsU8(BitAnd32(Shr32(stream_id, 24), X000000FF)) >>


pack_header(header) ==
    LET length == header[1]
        frame_type == header[2]
        flags == header[3]
        stream_id == header[4]
    IN  << AsU8(BitAnd32(Shr32(length, 16), X000000FF)),
           AsU8(BitAnd32(Shr32(length, 8), X000000FF)),
           AsU8(BitAnd32(length, X000000FF)),
           frame_type,
           flags,
           AsU8(BitAnd32(Shr32(stream_id, 24), X000000FF)),
           AsU8(BitAnd32(Shr32(stream_id, 16), X000000FF)),
           AsU8(BitAnd32(Shr32(stream_id, 8), X000000FF)),
           AsU8(BitAnd32(stream_id, X000000FF)) >>

----------------------------------------------------------------------------
(* Results. *)

\* Option::None, Option::Some(v).
None == [tag |-> "None"]
Some(v) == [tag |-> "Some", val |-> v]

\* A call that returned v, and a call that ended in a panic (a failed assert!
\* or an out-of-range slice index).
Ok(v) == [tag |-> "Ok", val |-> v]
Panic == [tag |-> "Panic"]

\* io::Result<()>: Ok(()) and Err(e).
Unit == "()"
Err(e) == [tag |-> "Err", err |-> e]

----------------------------------------------------------------------------
(* The padding extractor. *)

\* parse_padded_payload accepting a padding length equal to the payload length.
parse_padded_payload_le(p) ==
    IF Len(p) = 0 THEN None
    ELSE LET pad_len == p[1]
         IN  IF pad_len > Len(p) THEN None
             ELSE Some(<<Slice(p, 1, Len(p) - pad_len), pad_len % 256>>)

parse_padded_payload(p) ==
    IF Len(p) = 0 THEN None
    ELSE LET pad_len == p[1]
         IN  IF pad_len >= Len(p) THEN None
             ELSE Some(<<Slice(p, 1, Len(p) - pad_len), pad_len % 256>>)

----------------------------------------------------------------------------
(* The raw frame container. *)

\* RawFrame { raw_content: Cow<[u8]> }: the bytes and whether they are borrowed.
RawFrame(cow, bytes) == [cow |-> cow, raw_content |-> bytes]

\* impl From<Vec<u8>> for RawFrame
FromVec(raw) == RawFrame("Owned", raw)

\* impl From<&[u8]> for RawFrame
FromSlice(raw) == RawFrame("Borrowed", raw)

\* parse asking for one payload byte more than the header declares.
parse_strict(b) ==
    IF Len(b) < 9 THEN Ok(None)
    ELSE LET h == unpack_header(Slice(b, 0, 9))
             payload_len == AsUsize(h[1])
         IN  IF Len(Slice(b, 9, Len(b))) <= payload_len THEN Ok(None)
             ELSE Ok(Some(FromSlice(Slice(b, 0, 9 + payload_len))))

\* parse keeping the whole buffer instead of the first 9 + length bytes.
parse_whole(b) ==
    IF Len(b) < 9 THEN Ok(None)
    ELSE LET h == unpack_header(Slice(b, 0, 9))
             payload_len == AsUsize(h[1])
         IN  IF Len(Slice(b, 9, Len(b))) < payload_len THEN Ok(None)
             ELSE Ok(Some(FromSlice(b)))

\* parse slicing the first `length` bytes, the 9 header bytes not counted.
parse_short(b) ==
    IF Len(b) < 9 THEN Ok(None)
    ELSE LET h == unpack_header(Slice(b, 0, 9))
             payload_len == AsUsize(h[1])
         IN  IF Len(Slice(b, 9, Len(b))) < payload_len THEN Ok(None)
             ELSE Ok(Some(FromSlice(Slice(b, 0, payload_len))))

\* RawFrame::parse; the assert! guards the transmute of the first 9 bytes.
parse(b) ==
    IF Len(b) < 9 THEN Ok(None)
    ELSE IF ~(Len(b) >= 9) THEN Panic
    ELSE LET header == unpack_header(Slice(b, 0, 9))
             payload_len == AsUsize(header[1])
         IN  IF Len(Slice(b, 9, Len(b))) < payload_len THEN Ok(None)
             ELSE Ok(Some(FromSlice(Slice(b, 0, 9 + payload_len))))

\* into_static copying the header and leaving the payload behind.
into_static_header(f) ==
    RawFrame("Owned", Slice(f.raw_content, 0,
                            IF Len(f.raw_content) < 9 THEN Len(f.raw_content) ELSE 9))

\* RawFrame::into_static
into_static(f) == RawFrame("Owned", f.raw_content)

\* len counting the payload bytes only.
len_payload(f) == Len(f.raw_content) - 9

\* RawFrame::len
len(f) == Len(f.raw_content)

\* RawFrame::serialize
serialize(f) == f.raw_content

\* RawFrame::header; the assert! panics on fewer than 9 bytes.
header(f) ==
    IF ~(Len(f.raw_content) >= 9) THEN Panic
    ELSE Ok(unpack_header(Slice(f.raw_content, 0, 9)))

\* payload starting one byte early, inside the header.
payload_from8(f) ==
    IF 8 > Len(f.raw_content) THEN Panic
    ELSE Ok(Slice(f.raw_content, 8, Len(f.raw_content)))

\* payload refusing a frame that holds a header and no payload byte.
payload_strict(f) ==
    IF 9 >= Len(f.raw_content) THEN Panic
    ELSE Ok(Slice(f.raw_content, 9, Len(f.raw_content)))

\* RawFrame::payload; the slice index 9.. panics when 9 is past the end.
payload(f) ==
    IF 9 > Len(f.raw_content) THEN Panic
    ELSE Ok(Slice(f.raw_content, 9, Len(f.raw_content)))

\* impl Into<Vec<u8>> for RawFrame
into_vec(f) == f.raw_content

\* impl AsRef<[u8]> for RawFrame
as_ref(f) == f.raw_content

----------------------------------------------------------------------------
(* The FrameBuilder sink and FrameIR for RawFrame. *)

\* A builder: the bytes it held when handed over (base), the bytes it holds
\* now (written) and the writes it was asked for with the answer it gave to
\* each, in order (calls).
Builder(bytes) == [base |-> bytes, written |-> bytes, calls |-> <<>>]

\* One write of `data` into builder b.  `outcome` is what the sink answers,
\* Ok(()) or Err(e); a failing write leaves the first k bytes of data behind.
SinkWrite(b, name, data, outcome, k) ==
    [sink |-> [base |-> b.base,
               written |-> b.written \o (IF outcome.tag = "Ok" THEN data
                                          ELSE Slice(data, 0, k)),
               calls |-> Append(b.calls, [name |-> name, data |-> data,
                                          res |-> outcome])],
     res |-> outcome]

\* FrameBuilder::write_header: the 9 bytes pack_header gives for the header.
write_header(b, h, outcome, k) ==
    SinkWrite(b, "write_header", pack_header(h), outcome, k)

\* io::Write::write_all
write_all(b, data, outcome, k) ==
    SinkWrite(b, "write_all", data, outcome, k)

\* serialize_into without the try!: a failed header write is dropped and the
\* payload is written all the same.
serialize_into_notry(f, b, ho, hk, po, pk) ==
    LET hd == header(f)
    IN  IF hd.tag = "Panic" THEN [sink |-> b, res |-> Panic]
        ELSE LET w1 == write_header(b, hd.val, ho, hk)
                 pl == payload(f)
             IN  IF pl.tag = "Panic"
                 THEN [sink |-> w1.sink, res |-> Panic]
                 ELSE LET w2 == write_all(w1.sink, pl.val, po, pk)
                      IN  [sink |-> w2.sink, res |-> Ok(w2.res)]

\* impl FrameIR for RawFrame: try!(b.write_header(self.header()));
\* b.write_all(self.payload()).  try! returns Err(From::from(e)) at once, and
\* From<io::Error> for io::Error is the identity.
serialize_into(f, b, ho, hk, po, pk) ==
    LET hd == header(f)
    IN  IF hd.tag = "Panic" THEN [sink |-> b, res |-> Panic]
        ELSE LET w1 == write_header(b, hd.val, ho, hk)
             IN  IF w1.res.tag = "Err"
                 THEN [sink |-> w1.sink, res |-> Ok(Err(w1.res.err))]
                 ELSE LET pl == payload(f)
                      IN  IF pl.tag = "Panic"
                          THEN [sink |-> w1.sink, res |-> Panic]
                          ELSE LET w2 == write_all(w1.sink, pl.val, po, pk)
                               IN  [sink |-> w2.sink, res |-> Ok(w2.res)]

----------------------------------------------------------------------------
(* The inputs the model draws from. *)

RECURSIVE SeqsOfLen(_, _)
SeqsOfLen(S, n) ==
    IF n = 0 THEN {<<>>}
    ELSE {Append(s, x) : s \in SeqsOfLen(S, n - 1), x \in S}

SeqsUpTo(S, n) == UNION {SeqsOfLen(S, k) : k \in 0..n}

\* u32 values for the length and stream_id fields: 0, 1, 2^8, 2^16, 0x010203,
\* 2^24-1, 2^24, 0x01010101, 2^31-1, 2^31, 2^31+1 and 2^32-1.
Words ==
    { <<0, 0, 0, 0>>, <<0, 0, 0, 1>>, <<0, 0, 1, 0>>, <<0, 1, 0, 0>>,
      <<0, 1, 2, 3>>, <<0, 255, 255, 255>>, <<1, 0, 0, 0>>, <<1, 1, 1, 1>>,
      <<127, 255, 255, 255>>, <<128, 0, 0, 0>>, <<128, 0, 0, 1>>,
      <<255, 255, 255, 255>> }

\* FrameHeader values handed to pack_header.
Headers == {<<l, t, f, s>> : l \in Words, t \in {2, 200}, f \in {0, 100}, s \in Words}

\* FrameHeaderBuffer values handed to unpack_header.
HeaderBufs ==
    {<<b0, b1, b2, t, f>> \o s :
        b0 \in {0, 1, 255}, b1 \in {0, 1, 255}, b2 \in {0, 1, 255},
        t \in {2, 200}, f \in {0, 100}, s \in Words}

\* Payloads handed to parse_padded_payload.
PadOctets == {0, 1, 2, 3, 4, 5, 255}
PaddedInputs == SeqsUpTo(PadOctets, MaxPadded)

\* Buffers handed to the container: a header whose length field is one of
\* LengthFields and whose stream-id field has the reserved bit clear or set,
\* followed by up to MaxExtra bytes, cut at any point.
LengthFields == {<<0, 0, 0>>, <<0, 0, 1>>, <<0, 0, 2>>, <<0, 0, 3>>, <<0, 0, 4>>,
                 <<0, 1, 0>>, <<1, 0, 0>>}
StreamIdFields == {<<0, 0, 0, 1>>, <<128, 0, 0, 1>>}
FullBufs ==
    {l \o <<1, 0>> \o s \o p :
        l \in LengthFields, s \in StreamIdFields, p \in SeqsUpTo({7, 8}, MaxExtra)}
Bufs == UNION {{Slice(b, 0, k) : k \in 0..Len(b)} : b \in FullBufs}

\* What a sink answers to a write.
IoErrors == {"WriteZero", "BrokenPipe"}
Outcomes == {Ok(Unit)} \cup {Err(e) : e \in IoErrors}

\* The values of the variables a specification does not use.
NoHeader == <<AsU32(0), 0, 0, AsU32(0)>>
NoBuffer == <<>>
Idle == [op |-> "init", val |-> Unit]
NoStream == [frames |-> <<>>, wire |-> <<>>, pos |-> 0, emitted |-> <<>>]

----------------------------------------------------------------------------
(* The header codec, as a caller uses it. *)

InitCodec ==
    /\ \/ hdr \in Headers /\ hbuf = pack_header(NoHeader)
       \/ hdr = NoHeader /\ hbuf \in HeaderBufs
    /\ padded = NoBuffer
    /\ buf = NoBuffer
    /\ frame = None
    /\ origin = "none"
    /\ sink = Builder(<<>>)
    /\ stream = NoStream
    /\ ret = Idle

PackHeader ==
    /\ ret' = [op |-> "pack_header", val |-> pack_header(hdr)]
    /\ UNCHANGED <<stream, hdr, hbuf, padded, buf, frame, origin, sink>>

UnpackHeader ==
    /\ ret' = [op |-> "unpack_header", val |-> unpack_header(hbuf)]
    /\ UNCHANGED <<stream, hdr, hbuf, padded, buf, frame, origin, sink>>

RoundTrip ==
    /\ ret' = [op |-> "round_trip", val |-> unpack_header(pack_header(hdr))]
    /\ UNCHANGED <<stream, hdr, hbuf, padded, buf, frame, origin, sink>>

NextCodec == PackHeader \/ UnpackHeader \/ RoundTrip

SpecCodec == InitCodec /\ [][NextCodec]_vars

----------------------------------------------------------------------------
(* The padding extractor, as a frame decoder uses it. *)

InitPad ==
    /\ hdr = NoHeader
    /\ hbuf = pack_header(NoHeader)
    /\ padded \in PaddedInputs
    /\ buf = NoBuffer
    /\ frame = None
    /\ origin = "none"
    /\ sink = Builder(<<>>)
    /\ stream = NoStream
    /\ ret = Idle

ParsePadded ==
    /\ ret.op = "init"
    /\ ret' = [op |-> "parse_padded_payload", val |-> parse_padded_payload(padded)]
    /\ UNCHANGED <<stream, hdr, hbuf, padded, buf, frame, origin, sink>>

NextPad == ParsePadded

SpecPad == InitPad /\ [][NextPad]_vars

----------------------------------------------------------------------------
(* The raw frame container, as a caller uses it: one construction, then    *)
(* reads, until the frame is consumed or a call panics.                    *)

Init ==
    /\ hdr = NoHeader
    /\ hbuf = pack_header(NoHeader)
    /\ padded = NoBuffer
    /\ buf \in Bufs
    /\ frame = None
    /\ origin = "none"
    /\ sink \in {Builder(<<>>), Builder(<<170>>)}
    /\ stream = NoStream
    /\ ret = Idle

\* No call has panicked and a frame is held.
Holding == frame.tag = "Some" /\ ret.val # Panic

Parse ==
    /\ ret.op = "init"
    /\ LET r == parse(buf)
       IN  /\ ret' = [op |-> "parse", val |-> r]
           /\ frame' = IF r.tag = "Ok" THEN r.val ELSE None
           /\ origin' = IF r.tag = "Ok" /\ r.val.tag = "Some" THEN "parse" ELSE "none"
    /\ UNCHANGED <<stream, hdr, hbuf, padded, buf, sink>>

ConstructFromVec ==
    /\ ret.op = "init"
    /\ frame' = Some(FromVec(buf))
    /\ origin' = "from_vec"
    /\ ret' = [op |-> "from_vec", val |-> Ok(frame'.val)]
    /\ UNCHANGED <<stream, hdr, hbuf, padded, buf, sink>>

ConstructFromSlice ==
    /\ ret.op = "init"
    /\ frame' = Some(FromSlice(buf))
    /\ origin' = "from_slice"
    /\ ret' = [op |-> "from_slice", val |-> Ok(frame'.val)]
    /\ UNCHANGED <<stream, hdr, hbuf, padded, buf, sink>>

IntoStatic ==
    /\ Holding
    /\ frame' = Some(into_static(frame.val))
    /\ ret' = [op |-> "into_static", val |-> Ok(frame'.val)]
    /\ UNCHANGED <<stream, hdr, hbuf, padded, buf, origin, sink>>

Clone ==
    /\ Holding
    /\ ret' = [op |-> "clone", val |-> Ok(frame.val)]
    /\ UNCHANGED <<stream, hdr, hbuf, padded, buf, frame, origin, sink>>

CallLen ==
    /\ Holding
    /\ ret' = [op |-> "len", val |-> Ok(len(frame.val))]
    /\ UNCHANGED <<stream, hdr, hbuf, padded, buf, frame, origin, sink>>

Serialize ==
    /\ Holding
    /\ ret' = [op |-> "serialize", val |-> Ok(serialize(frame.val))]
    /\ UNCHANGED <<stream, hdr, hbuf, padded, buf, frame, origin, sink>>

AsRef ==
    /\ Holding
    /\ ret' = [op |-> "as_ref", val |-> Ok(as_ref(frame.val))]
    /\ UNCHANGED <<stream, hdr, hbuf, padded, buf, frame, origin, sink>>

CallHeader ==
    /\ Holding
    /\ ret' = [op |-> "header", val |-> header(frame.val)]
    /\ UNCHANGED <<stream, hdr, hbuf, padded, buf, frame, origin, sink>>

CallPayload ==
    /\ Holding
    /\ ret' = [op |-> "payload", val |-> payload(frame.val)]
    /\ UNCHANGED <<stream, hdr, hbuf, padded, buf, frame, origin, sink>>

\* Into<Vec<u8>> takes the frame by value: none is held afterwards.
IntoVec ==
    /\ Holding
    /\ ret' = [op |-> "into_vec", val |-> Ok(into_vec(frame.val)), of |-> frame.val]
    /\ frame' = None
    /\ UNCHANGED <<stream, hdr, hbuf, padded, buf, origin, sink>>

\* What the sink answers to the two writes of one serialize_into of frame f:
\* both succeed, or the header write fails having written hk of the 9 bytes,
\* or the payload write fails having written pk bytes, fewer than all.
SinkPlans(f) ==
    {[ho |-> Ok(Unit), hk |-> 0, po |-> Ok(Unit), pk |-> 0]}
    \cup {[ho |-> Err(e), hk |-> k, po |-> Ok(Unit), pk |-> 0] :
             e \in IoErrors, k \in 0..8}
    \cup {[ho |-> Ok(Unit), hk |-> 0, po |-> Err(e), pk |-> k] :
             e \in IoErrors, k \in 0..(IF len(f) > 9 THEN len(f) - 10 ELSE 0)}

\* serialize_into takes the frame by value; `of` keeps the frame it was given.
SerializeInto ==
    /\ Holding
    /\ \E plan \in SinkPlans(frame.val) :
          LET r == serialize_into(frame.val, sink, plan.ho, plan.hk, plan.po, plan.pk)
          IN  /\ sink' = r.sink
              /\ ret' = [op |-> "serialize_into", val |-> r.res, of |-> frame.val]
    /\ frame' = None
    /\ UNCHANGED <<stream, hdr, hbuf, padded, buf, origin>>

Next ==
    \/ Parse \/ ConstructFromVec \/ ConstructFromSlice
    \/ IntoStatic \/ Clone \/ CallLen \/ Serialize \/ AsRef
    \/ CallHeader \/ CallPayload \/ IntoVec \/ SerializeInto

Spec == Init /\ [][Next]_vars

----------------------------------------------------------------------------
(* The header codec: claims. *)

\* The number three big-endian octets stand for (at most 2^24 - 1).
BigEndian3(b0, b1, b2) == b0 * 65536 + b1 * 256 + b2

\* A header whose length is below 2^24 and whose stream_id is below 2^31.
InRange(h) == h[1][1] = 0 /\ h[4][1] < 128

\* A header buffer with the top bit of byte 5 (the reserved bit) flipped.
FlipReserved(b) ==
    [b EXCEPT ![6] = IF b[6] >= 128 THEN b[6] - 128 ELSE b[6] + 128]

\* C1: unpack_header(pack_header(h)) = h for every header h whose length is
\* below 2^24 and whose stream_id is below 2^31.
C1_RoundTrip ==
    (ret.op = "round_trip" /\ InRange(hdr)) => ret.val = hdr

\* The round trip ran on the largest header in range.
C1_Witness ==
    /\ ret.op = "round_trip"
    /\ hdr[1] = <<0, 255, 255, 255>>
    /\ hdr[4] = <<127, 255, 255, 255>>
    /\ ret.val = hdr

\* C2: unpack_header returns, for every 9-byte buffer b, length =
\* b[0]*65536 + b[1]*256 + b[2], frame_type = b[3], flags = b[4] and
\* stream_id = (b[5]*2^24 + b[6]*2^16 + b[7]*2^8 + b[8]) mod 2^31, which is
\* below 2^31; the buffer with the top bit of b[5] flipped decodes to the same
\* tuple.  (Buffers are indexed from 1 here; x mod 2^31 of the four octets is
\* the same sum with b[5] mod 128 in place of b[5].)
C2_UnpackFields ==
    ret.op = "unpack_header" =>
        LET r == ret.val
        IN  /\ r[1][1] = 0
            /\ AsUsize(r[1]) = BigEndian3(hbuf[1], hbuf[2], hbuf[3])
            /\ r[2] = hbuf[4]
            /\ r[3] = hbuf[5]
            /\ r[4][1] < 128
            /\ AsUsize(r[4]) =
                   (hbuf[6] % 128) * 16777216 + BigEndian3(hbuf[7], hbuf[8], hbuf[9])
            /\ unpack_header(FlipReserved(hbuf)) = r

\* A buffer with the reserved bit set and a length of 2^24 - 1 was decoded.
C2_Witness ==
    /\ ret.op = "unpack_header"
    /\ hbuf[6] >= 128
    /\ hbuf[1] = 255 /\ hbuf[2] = 255 /\ hbuf[3] = 255
    /\ ret.val[4][1] < 128

\* C3: the most significant bit of byte 5 of the 9 bytes pack_header produces
\* is 0, for every header it is given.
C3_ReservedBitClear ==
    ret.op = "pack_header" => ret.val[6] < 128

----------------------------------------------------------------------------
(* The raw frame container: claims. *)

\* The length a buffer of at least 3 bytes declares in its first 3 bytes.
Declared(b) == BigEndian3(b[1], b[2], b[3])

\* parse has returned on the buffer.
Parsed == ret.op = "parse"

\* C4: parse(buf) returns None if and only if buf has fewer than 9 bytes, or
\* has at least 9 bytes and fewer than 9 + L, L being the length its first 3
\* bytes declare; on every other buffer it returns a frame, and it never panics.
C4_ParseNoneIff ==
    Parsed =>
        /\ ret.val.tag = "Ok"
        /\ ret.val.val.tag \in {"None", "Some"}
        /\ ret.val.val = None <=>
               \/ Len(buf) < 9
               \/ Len(buf) >= 9 /\ Len(buf) < 9 + Declared(buf)

\* parse refused a buffer that holds a whole header and one payload byte less
\* than the header declares.
C4_Witness ==
    /\ Parsed
    /\ ret.val = Ok(None)
    /\ Len(buf) >= 9
    /\ Len(buf) = 9 + Declared(buf) - 1

\* C5: when parse(buf) succeeds, the frame holds exactly the first 9 + L
\* bytes of buf: len() = 9 + L, payload() is the L bytes after the header,
\* header().0 = L, and serialize() = buf[0 .. 9+L], whatever follows in buf.
C5_ParseExactSlice ==
    (Parsed /\ ret.val.tag = "Ok" /\ ret.val.val.tag = "Some") =>
        LET f == ret.val.val.val
            L == Declared(buf)
        IN  /\ frame = Some(f)
            /\ f.raw_content = Slice(buf, 0, 9 + L)
            /\ len(f) = 9 + L
            /\ payload(f) = Ok(Slice(buf, 9, 9 + L))
            /\ Len(payload(f).val) = L
            /\ header(f).tag = "Ok"
            /\ AsUsize(header(f).val[1]) = L
            /\ serialize(f) = Slice(buf, 0, 9 + L)

\* parse succeeded on a buffer with a payload and bytes after the frame.
C5_Witness ==
    /\ Parsed
    /\ ret.val.tag = "Ok" /\ ret.val.val.tag = "Some"
    /\ Declared(buf) >= 1
    /\ Len(buf) > 9 + Declared(buf)
    /\ len(frame.val) < Len(buf)

\* C7 as stated: every RawFrame, however it was constructed, has a len() that
\* is 0 or at least 9.
C7_LenZeroOrHeader ==
    /\ frame.tag = "Some" => (len(frame.val) = 0 \/ len(frame.val) >= 9)
    /\ (ret.op \in {"clone", "into_static"} /\ ret.val.tag = "Ok") =>
           (len(ret.val.val) = 0 \/ len(ret.val.val) >= 9)

\* C7 as amended: a RawFrame that comes from parse, directly or through
\* into_static or clone, has len() >= 9 (it is 9 + L); one that comes from
\* From<Vec<u8>> or From<&[u8]> has the length of the bytes it was given.
C7_LenByOrigin ==
    /\ (frame.tag = "Some" /\ origin = "parse") =>
           (len(frame.val) >= 9 /\ len(frame.val) = 9 + Declared(buf))
    /\ (frame.tag = "Some" /\ origin \in {"from_vec", "from_slice"}) =>
           len(frame.val) = Len(buf)
    /\ (ret.op \in {"clone", "into_static"} /\ ret.val.tag = "Ok") =>
           len(ret.val.val) = len(frame.val)

\* A parsed frame was converted by into_static and holds header and payload.
C7_Witness ==
    /\ origin = "parse"
    /\ ret.op = "into_static"
    /\ frame.tag = "Some"
    /\ frame.val.cow = "Owned"
    /\ len(frame.val) > 9

\* serialize_into has returned success on a frame of at least 9 bytes.
Serialized ==
    /\ ret.op = "serialize_into"
    /\ len(ret.of) >= 9
    /\ ret.val = Ok(Ok(Unit))

\* The held bytes with the top bit of byte 5 cleared.
ClearReserved(bytes) == [bytes EXCEPT ![6] = bytes[6] % 128]

\* C8 as stated: serialize_into a sink whose writes succeed appends exactly
\* the bytes the frame holds, which are the bytes serialize() returns.
C8_SinkVerbatim ==
    Serialized => sink.written = sink.base \o serialize(ret.of)

\* C8 as amended: serialize_into a sink whose writes succeed appends the bytes
\* the frame holds with the reserved bit (the top bit of byte 5) cleared; that
\* is what serialize() returns exactly when the bit is clear in the held bytes.
C8_SinkReservedCleared ==
    Serialized =>
        /\ sink.written = sink.base \o ClearReserved(serialize(ret.of))
        /\ (sink.written = sink.base \o serialize(ret.of)) <=>
               serialize(ret.of)[6] < 128

\* A frame with a payload and the reserved bit set went into a sink that
\* already held a byte.
C8_Witness ==
    /\ Serialized
    /\ len(ret.of) > 9
    /\ ret.of.raw_content[6] >= 128
    /\ sink.base # <<>>

\* C9: serialize_into asks for the header write first; if that fails its
\* error is returned as it is and the payload write is not asked for; if it
\* succeeds the payload write follows, its answer is returned as it is and
\* the 9 header bytes stay in the sink; success is returned only when both
\* writes succeeded.
C9_SinkFailure ==
    (ret.op = "serialize_into" /\ ret.val.tag = "Ok") =>
        LET r == ret.val.val
            c == sink.calls
        IN  /\ Len(c) \in {1, 2}
            /\ c[1].name = "write_header"
            /\ c[1].data = pack_header(header(ret.of).val)
            /\ c[1].res.tag = "Err" => (Len(c) = 1 /\ r = c[1].res)
            /\ c[1].res.tag = "Ok" =>
                   /\ Len(c) = 2
                   /\ c[2].name = "write_all"
                   /\ c[2].data = payload(ret.of).val
                   /\ r = c[2].res
                   /\ Len(sink.written) >= Len(sink.base) + 9
                   /\ Slice(sink.written, 0, Len(sink.base) + 9) =
                          sink.base \o c[1].data
            /\ r.tag = "Ok" <=> \A i \in 1..Len(c) : c[i].res.tag = "Ok"

\* The header write succeeded, the payload write failed part of the way.
C9_Witness ==
    /\ ret.op = "serialize_into"
    /\ ret.val = Ok(Err("BrokenPipe"))
    /\ Len(sink.calls) = 2
    /\ Len(sink.written) = Len(sink.base) + 10
    /\ len(ret.of) = 11

\* The constructions that check nothing.
Unchecked == origin \in {"from_vec", "from_slice"}

\* C10 as stated: on a RawFrame built by From<Vec<u8>> or From<&[u8]> from any
\* bytes, header(), payload(), len(), serialize() and into_static() complete.
C10_NoPanic ==
    (Unchecked /\ ret.op \in {"header", "payload", "len", "serialize", "into_static"})
        => ret.val.tag = "Ok"

\* C10 as amended: on such a frame len(), serialize() and into_static()
\* complete whatever the bytes; header() and payload() complete exactly when
\* the frame holds at least 9 bytes, returning the decoded first 9 bytes and
\* the bytes after them, and panic on a shorter frame.
C10_PanicBelowHeader ==
    Unchecked =>
        /\ ret.op \in {"len", "serialize", "into_static"} => ret.val.tag = "Ok"
        /\ ret.op \in {"header", "payload"} =>
               (ret.val = Panic <=> Len(buf) < 9)
        /\ (ret.op = "header" /\ Len(buf) >= 9) =>
               ret.val = Ok(unpack_header(Slice(buf, 0, 9)))
        /\ (ret.op = "payload" /\ Len(buf) >= 9) =>
               ret.val = Ok(Slice(buf, 9, Len(buf)))

\* payload() returned the empty payload of an unchecked frame of 9 bytes whose
\* header declares more.
C10_Witness ==
    /\ Unchecked
    /\ ret.op = "payload"
    /\ Len(buf) = 9
    /\ Declared(buf) > 0
    /\ ret.val = Ok(<<>>)

----------------------------------------------------------------------------
(* The padding extractor: claims. *)

\* C6: parse_padded_payload(p) is None exactly when p is empty or p[0] >=
\* len(p); otherwise it is (p[1 .. len(p) - p[0]], p[0]), so data length +
\* pad length + 1 = len(p), p[0] = len(p) - 1 gives empty data, and payloads
\* that differ only in the trailing padding bytes give the same result.
C6_PaddedPayload ==
    ret.op = "parse_padded_payload" =>
        LET n == Len(padded)
            bad == n = 0 \/ padded[1] >= n
        IN  /\ ret.val = None <=> bad
            /\ ~bad =>
                 /\ ret.val = Some(<<SubSeq(padded, 2, n - padded[1]), padded[1]>>)
                 /\ Len(ret.val.val[1]) + ret.val.val[2] + 1 = n
                 /\ padded[1] = n - 1 => ret.val.val[1] = <<>>
                 /\ \A t \in SeqsOfLen(PadOctets, padded[1]) :
                        parse_padded_payload(SubSeq(padded, 1, n - padded[1]) \o t)
                            = ret.val

\* The boundary: three padding bytes, not zero, after the length byte alone.
C6_Witness ==
    /\ ret.op = "parse_padded_payload"
    /\ padded = <<3, 255, 1, 2>>
    /\ ret.val = Some(<<(<<>>), 3>>)

----------------------------------------------------------------------------
(* Borrowed and owned frames: claims. *)

\* The frames the three construction paths give for the same bytes.
Variants(bytes) ==
    {FromSlice(bytes), FromVec(bytes),
     into_static(FromSlice(bytes)), into_static(FromVec(bytes))}

\* Every variant of the caller's buffer answers the five reads alike.
SameReads ==
    \A f \in Variants(buf), g \in Variants(buf) :
        /\ header(f) = header(g)
        /\ payload(f) = payload(g)
        /\ len(f) = len(g)
        /\ serialize(f) = serialize(g)
        /\ into_vec(f) = into_vec(g)

\* What the calls made on the frame held returned is decided by the bytes it
\* was built from alone, whichever way it was built or converted.
ReadsOfBytes ==
    /\ frame.tag = "Some" => frame.val.raw_content = buf
    /\ ret.op = "into_static" => ret.val = Ok(RawFrame("Owned", buf))
    /\ ret.op = "header" => ret.val = Ok(unpack_header(Slice(buf, 0, 9)))
    /\ ret.op = "payload" => ret.val = Ok(Slice(buf, 9, Len(buf)))
    /\ ret.op = "len" => ret.val = Ok(Len(buf))
    /\ ret.op = "serialize" => ret.val = Ok(buf)
    /\ ret.op = "as_ref" => ret.val = Ok(buf)
    /\ ret.op = "into_vec" => ret.val = Ok(buf)

\* The calls that take the frame by shared reference.
Reads == {"header", "payload", "len", "serialize", "as_ref"}

\* C11: for a byte sequence of at least 9 bytes, the frame built from a
\* borrowed slice, the one built from an owned Vec and the into_static of
\* either give the same header(), payload(), len(), serialize() and
\* Into<Vec<u8>> results, and no call of header(), payload(), len(),
\* serialize() or as_ref() changes the bytes the frame holds.
C11_BorrowedOwned ==
    /\ []((Unchecked /\ Len(buf) >= 9) => (SameReads /\ ReadsOfBytes))
    /\ [][(frame.tag = "Some" /\ ret'.op \in Reads) => frame' = frame]_vars

\* A frame borrowed from a buffer with a payload was made owned by
\* into_static and its payload was then read.
C11_Witness ==
    /\ origin = "from_slice"
    /\ frame.tag = "Some"
    /\ frame.val.cow = "Owned"
    /\ Len(buf) > 9
    /\ ret.op = "payload"
    /\ ret.val = Ok(Slice(buf, 9, Len(buf)))

----------------------------------------------------------------------------
(* Streamed input: frames sent back to back arrive in chunks of any size;  *)
(* the reader parses the bytes it has not consumed, waits on None and      *)
(* moves its position past the frame on Some.                              *)

RECURSIVE Concat(_)
\* The bytes of a sequence of byte strings, one after the other.
Concat(ss) == IF ss = <<>> THEN <<>> ELSE Head(ss) \o Concat(Tail(ss))

\* Well-formed frames: a packed header declaring the payload's length, then
\* the payload; one payload is all zeros, one frame has the reserved bit set.
WellFormed ==
    {pack_header(<<AsU32(Len(p)), 1, 0, AsU32(1)>>) \o p :
        p \in {<<>>, <<7>>, <<0, 0>>}}
    \cup {pack_header(<<AsU32(1), 0, 5, X80000000>>) \o <<8>>}

InitStream ==
    /\ hdr = NoHeader
    /\ hbuf = pack_header(NoHeader)
    /\ padded = NoBuffer
    /\ buf = <<>>
    /\ frame = None
    /\ origin = "none"
    /\ sink = Builder(<<>>)
    /\ \E fs \in SeqsUpTo(WellFormed, MaxFrames) :
          stream = [frames |-> fs, wire |-> Concat(fs), pos |-> 0, emitted |-> <<>>]
    /\ ret = [op |-> "init", val |-> Ok(None)]

\* The next k bytes arrive; the buffer grows, so no frame borrows from it.
Recv ==
    /\ stream.wire # <<>>
    /\ \E k \in 1..Len(stream.wire) :
          /\ buf' = buf \o Slice(stream.wire, 0, k)
          /\ stream' = [stream EXCEPT !.wire = Slice(stream.wire, k, Len(stream.wire))]
          /\ ret' = [op |-> "recv", val |-> Ok(None)]
    /\ frame' = None
    /\ origin' = "none"
    /\ UNCHANGED <<hdr, hbuf, padded, sink>>

\* The bytes received and not yet consumed.
Unconsumed == Slice(buf, stream.pos, Len(buf))

\* The reader's step: parse the unconsumed bytes; on Some emit the frame and
\* advance by its len(), on None leave the position and wait.
ReadFrame ==
    /\ Len(stream.emitted) <= MaxFrames
    /\ LET r == parse(Unconsumed)
       IN  /\ ret' = [op |-> "parse", val |-> r]
           /\ IF r.tag = "Ok" /\ r.val.tag = "Some"
              THEN /\ frame' = r.val
                   /\ origin' = "parse"
                   /\ stream' = [stream EXCEPT
                                   !.pos = stream.pos + len(r.val.val),
                                   !.emitted = Append(stream.emitted,
                                                      serialize(r.val.val))]
              ELSE /\ frame' = None
                   /\ origin' = "none"
                   /\ UNCHANGED stream
    /\ UNCHANGED <<hdr, hbuf, padded, buf, sink>>

NextStream == Recv \/ ReadFrame

\* The transport delivers what was sent and the reader keeps reading.
SpecStream ==
    InitStream /\ [][NextStream]_vars /\ WF_vars(Recv) /\ WF_vars(ReadFrame)

----------------------------------------------------------------------------
(* Streamed input: claims. *)

\* The frames emitted are the first frames sent, in order, each once.
EmittedInOrder ==
    /\ Len(stream.emitted) <= Len(stream.frames)
    /\ \A i \in 1..Len(stream.emitted) : stream.emitted[i] = stream.frames[i]

\* The reader has consumed the bytes of the frames emitted, all received.
NotBeforeArrival ==
    /\ stream.pos = Len(Concat(stream.emitted))
    /\ stream.pos <= Len(buf)

\* When everything has arrived and parse answers None, all is consumed.
NothingLeft ==
    (stream.wire = <<>> /\ ret.op = "parse" /\ ret.val = Ok(None)) =>
        (stream.emitted = stream.frames /\ stream.pos = Len(buf))

\* The frame parse has just returned is the one it returns when more bytes
\* follow, those on their way or any others.
StableUnderAppend ==
    (ret.op = "parse" /\ frame.tag = "Some") =>
        LET parsedFrom == Slice(buf, stream.pos - len(frame.val), Len(buf))
        IN  /\ \A k \in 0..Len(stream.wire) :
                   parse(parsedFrom \o Slice(stream.wire, 0, k)) = ret.val
            /\ \A t \in SeqsUpTo({0, 255}, 2) :
                   parse(parsedFrom \o t) = ret.val

\* Every frame sent has been emitted and no byte is left.
StreamDone ==
    /\ stream.wire = <<>>
    /\ stream.emitted = stream.frames
    /\ stream.pos = Len(buf)

\* C12: the reader emits exactly f1, .., fn in that order, each once, never
\* a frame before all its bytes have arrived, and ends with nothing
\* unconsumed; a successful parse result is not changed by appending bytes.
C12_Streamed ==
    /\ [](EmittedInOrder /\ NotBeforeArrival /\ NothingLeft /\ StableUnderAppend)
    /\ <>[]StreamDone

\* Two frames, the second with a payload, were emitted from a buffer that
\* received them and the reader's last parse found nothing more.
C12_Witness ==
    /\ Len(stream.frames) = 2
    /\ Len(stream.frames[2]) > 9
    /\ StreamDone
    /\ ret.op = "parse"
    /\ ret.val = Ok(None)

====
